---- MODULE Spec2Model ----
(***************************************************************************)
(* InvestBoard: the currency-normalisation pipeline of datapreparer.py,    *)
(* the broker client of tinkoffapi.py and the application object of        *)
(* InvestBoard.py, as state machines.                                      *)
(*                                                                         *)
(* Numbers are exact rationals [n, d] with d > 0; [n |-> 0, d |-> 0] is    *)
(* the missing value (pandas NaN / Python None in a numeric column).       *)
(* Tables are [columns, rows]; a row is a function from column names to    *)
(* values.                                                                 *)
(***************************************************************************)
EXTENDS Integers, Sequences, FiniteSets, TLC

VARIABLES
    call,        \* datapreparer entry point in progress
    accounts,    \* its input: the mapping toconcat_, in iteration order
    idx,         \* number of accounts already prepared by the loop
    toconcat,    \* datapreparer.py:28, the prepared triples so far
    result,      \* what the call returned (a sequence of tables)
    pc,          \* "running" | "returned" | "raised"
    err,         \* the exception the call ended with
    lookups,     \* every query made to ExchangeRates(date)[currency]
    enumField,   \* which enumerated field is being normalised
    enumRaw,     \* its raw symbolic name
    enumOut,     \* the normalised name
    enumPc,      \* "raw" | "done"
    data_path,   \* InvestBoard.data_path
    user_data,   \* InvestBoard.user_data
    api,         \* InvestBoard.api: whether a TinkoffAPI object exists
    settings,    \* TinkoffAPI._broker_account_id, _starting_date, _ending_date
    before,      \* the settings when the last get_each_account_data began
    lastCall,    \* the last method called on InvestBoard / TinkoffAPI
    outcome,     \* how it ended: "ok" or the exception's class name
    clock        \* datetime.now(), in days

prepVars == <<call, accounts, idx, toconcat, result, pc, err, lookups>>
enumVars == <<enumField, enumRaw, enumOut, enumPc>>
appVars == <<data_path, user_data, api, settings, before, lastCall, outcome, clock>>
vars == <<prepVars, enumVars, appVars>>

----------------------------------------------------------------------------
(* Bounds of the model *)

\* accounts in one mapping handed to concat_accounts
MaxAccounts == 2
\* rows of one raw position list / raw operation list
MaxRows == 2
\* characters of a raw enumerated name
MaxNameLen == 4
\* days datetime.now() may advance
MaxClock == 1

----------------------------------------------------------------------------
(* Exact arithmetic standing for the float columns *)

Abs(x) == IF x < 0 THEN -x ELSE x

RECURSIVE Gcd(_, _)
Gcd(a, b) == IF b = 0 THEN a ELSE Gcd(b, a % b)

NaN == [n |-> 0, d |-> 0]

IsNaN(x) == x.d = 0

Rat(n, d) ==
    LET g == Gcd(Abs(n), Abs(d))
        s == IF d < 0 THEN -1 ELSE 1
    IN  [n |-> (s * n) \div g, d |-> (s * d) \div g]

Num(n) == [n |-> n, d |-> 1]

Add(x, y) == IF IsNaN(x) \/ IsNaN(y) THEN NaN ELSE Rat(x.n * y.d + y.n * x.d, x.d * y.d)

Mul(x, y) == IF IsNaN(x) \/ IsNaN(y) THEN NaN ELSE Rat(x.n * y.n, x.d * y.d)

\* a zero divisor does not occur: every rate of the model is positive
Div(x, y) == IF IsNaN(x) \/ IsNaN(y) \/ y.n = 0 THEN NaN ELSE Rat(x.n * y.d, x.d * y.n)

----------------------------------------------------------------------------
(* Sequence helpers *)

RECURSIVE SeqsUpTo(_, _)
SeqsUpTo(S, n) ==
    IF n = 0 THEN {<<>>}
    ELSE LET shorter == SeqsUpTo(S, n - 1)
         IN  shorter \cup {Append(s, x) : s \in shorter, x \in S}

RECURSIVE Flatten(_)
Flatten(ss) == IF ss = <<>> THEN <<>> ELSE Head(ss) \o Flatten(Tail(ss))

Range(s) == {s[i] : i \in 1..Len(s)}

\* <<F(1), ..., F(n)>>, every element computed once
MapTo(n, F(_)) == [i \in 1..n |-> F(i)] @@ <<>>

\* the function f without the key k
Without(f, k) == LET keep == (DOMAIN f) \ {k} IN [c \in keep |-> f[c]] @@ <<>>

NoDuplicates(s) == \A i, j \in 1..Len(s) : s[i] = s[j] => i = j

----------------------------------------------------------------------------
(* Record Normalizer: enumerated fields *)

\* str.find('.'): the 0-based index of the first '.', -1 when there is none
RECURSIVE FindFrom(_, _)
FindFrom(s, i) ==
    IF i > Len(s) THEN -1
    ELSE IF SubSeq(s, i, i) = "." THEN i - 1
    ELSE FindFrom(s, i + 1)

Find(s) == FindFrom(s, 1)

\* str.rfind('.'): the 0-based index of the last '.', -1 when there is none
RECURSIVE RFindFrom(_, _)
RFindFrom(s, i) ==
    IF i < 1 THEN -1
    ELSE IF SubSeq(s, i, i) = "." THEN i - 1
    ELSE RFindFrom(s, i - 1)

RFind(s) == RFindFrom(s, Len(s))

\* s[k:] for 0 <= k
SliceFrom(s, k) == SubSeq(s, k + 1, Len(s))

StripQualifierLast(s) == SliceFrom(s, RFind(s) + 1)

\* typ[typ.find('.') + 1:]
StripQualifier(s) == SliceFrom(s, Find(s) + 1)

Fields ==
    {"position.instrument", "position.currency", "operation.operation",
     "operation.currency", "operation.instrument"}

\* The five reductions of _to_DataFrame; none of them raises.  Only the
\* operation's instrument kind has the "if inst_type else None" guard.
NormalizeEnum(field, raw) ==
    IF field = "operation.instrument" /\ raw = ""
    THEN [none |-> TRUE, name |-> ""]
    ELSE [none |-> FALSE, name |-> StripQualifier(raw)]

----------------------------------------------------------------------------
(* Raw records supplied by the broker, and the two rate sources *)

BASE == "RUB"

\* the currencies exchange_rates_get asks quotes for (USD, EUR)
BasicCurrencies == {"USD", "EUR"}

Currencies == {BASE} \cup BasicCurrencies

D1 == 1
D2 == 2

\* current quote of a basic currency, in RUB
Quote(c) == IF c = "USD" THEN Num(90) ELSE Num(100)

\* ExchangeRates(date)[currency]: the published rate, NaN where the index
\* finds no rate for that date and currency
Hist(date, c) ==
    CASE c = "USD" /\ date = D1 -> Num(95)
      [] c = "USD" /\ date = D2 -> Num(92)
      [] c = "EUR" /\ date = D1 -> Num(105)
      [] OTHER -> NaN

RawPosition(figi, cur, cost, balance, yield) ==
    [figi |-> figi, ticker |-> figi, name |-> figi,
     instrument_type |-> "InstrumentType.Stock",
     currency |-> cur, cost |-> Num(cost), balance |-> Num(balance),
     yield |-> Num(yield)]

\* a RUB position worth 100, a USD one worth 7, a EUR one worth 4
P1 == RawPosition("F1", "RUB", 100, 1, 0)
P2 == RawPosition("F2", "USD", 3, 2, 1)
P3 == RawPosition("F3", "EUR", 5, 1, -1)

RawPositions == {P1, P2, P3}

RawOperation(id, cur, date, payment, commission) ==
    [id |-> id, figi |-> "F1", date |-> date, payment |-> payment,
     commission |-> commission, currency |-> cur, quantity |-> Num(1),
     instrument_type |-> "InstrumentType.Stock",
     operation_type |-> "OperationTypeWithCommission.Buy"]

\* O2 and O5 have no commission; no EUR rate is published for D2 (O5)
O1 == RawOperation("O1", "RUB", D1, Num(-300), Num(-3))
O2 == RawOperation("O2", "USD", D1, Num(10), NaN)
O3 == RawOperation("O3", "USD", D2, Num(10), Num(-1))
O4 == RawOperation("O4", "EUR", D1, Num(6), Num(-2))
O5 == RawOperation("O5", "EUR", D2, Num(6), NaN)

RawOperations == {O1, O2, O3, O4, O5}

\* a rate snapshot: the dict's items in iteration order
Snapshots ==
    {s \in SeqsUpTo(BasicCurrencies, Cardinality(BasicCurrencies)) : NoDuplicates(s)}

NoTag == [given |-> FALSE, name |-> ""]

Tag(name) == [given |-> TRUE, name |-> name]

\* Python truthiness of account_name: None and "" are false
Truthy(tag) == tag.given /\ tag.name # ""

----------------------------------------------------------------------------
(* Record Normalizer: _to_DataFrame *)

\* F(v), with v computed once
With(v, F(_)) == CHOOSE r \in {F(x) : x \in {v}} : TRUE

Table(columns, rows) == [columns |-> columns, rows |-> rows]

HasColumn(t, c) == c \in Range(t.columns)

\* df[name] = f(row) for every row: a new column at the end, or an existing
\* one rewritten
SetColumn(t, name, f(_)) ==
    With(t, LAMBDA tv :
        Table(IF HasColumn(tv, name) THEN tv.columns ELSE Append(tv.columns, name),
              MapTo(Len(tv.rows), LAMBDA i : (name :> f(tv.rows[i])) @@ tv.rows[i])))

\* df.drop(columns=name), the column being present
DropColumn(t, name) ==
    With(t, LAMBDA tv :
        Table(SelectSeq(tv.columns, LAMBDA c : c # name),
              MapTo(Len(tv.rows), LAMBDA i : Without(tv.rows[i], name))))

\* "if account_name: table['account'] = account_name"
AddAccount(t, tag) ==
    IF Truthy(tag) THEN SetColumn(t, "account", LAMBDA row : tag.name) ELSE t

PositionRow(p) ==
    [figi |-> p.figi, ticker |-> p.ticker, name |-> p.name,
     cost |-> p.cost, yield |-> p.yield,
     value |-> Add(Mul(p.cost, p.balance), p.yield),
     currency |-> NormalizeEnum("position.currency", p.currency).name,
     balance |-> p.balance,
     instrument |-> NormalizeEnum("position.instrument", p.instrument_type).name]

PositionColumns ==
    <<"figi", "ticker", "name", "cost", "yield", "value", "currency",
      "balance", "instrument">>

OperationRow(o) ==
    [id |-> o.id, figi |-> o.figi, date |-> o.date, payment |-> o.payment,
     commission |-> o.commission,
     currency |-> NormalizeEnum("operation.currency", o.currency).name,
     quantity |-> o.quantity,
     instrument |-> NormalizeEnum("operation.instrument", o.instrument_type),
     operation |-> NormalizeEnum("operation.operation", o.operation_type).name]

OperationColumns ==
    <<"id", "figi", "date", "payment", "commission", "currency", "quantity",
      "instrument", "operation">>

RateRow(c) == [currency |-> c, exchange_rate |-> Quote(c)]

RateColumns == <<"currency", "exchange_rate">>

\* data = (portfolio, operations, exchange_rates) of one account
ToDataFrame(a) ==
    [portfolio |->
        AddAccount(Table(PositionColumns,
                         MapTo(Len(a.portfolio), LAMBDA i : PositionRow(a.portfolio[i]))),
                   a.tag),
     operations |->
        AddAccount(Table(OperationColumns,
                         MapTo(Len(a.operations), LAMBDA i : OperationRow(a.operations[i]))),
                   a.tag),
     exchange_rates |->
        AddAccount(Table(RateColumns,
                         MapTo(Len(a.exchange_rates),
                               LAMBDA i : RateRow(a.exchange_rates[i]))),
                   a.tag)]

----------------------------------------------------------------------------
(* Currency Equivalence Engine: _currency_comparability *)

NoError == [kind |-> "", date |-> 0, currency |-> ""]

\* an exception of class kind; the ones this code can end with carry no
\* date and no currency
Error(kind) == [kind |-> kind, date |-> 0, currency |-> ""]

\* pd.merge(left, right, how='left', on='currency'): each left row once per
\* matching right row, in left order, or once with a missing rate
RECURSIVE MergeLeft(_, _)
MergeLeft(rows, rates) ==
    IF Len(rows) = 0 THEN <<>>
    ELSE With(SelectSeq(rates, LAMBDA q : q.currency = Head(rows).currency),
              LAMBDA m :
                  IF Len(m) = 0
                  THEN <<Head(rows) @@ ("exchange_rate" :> NaN)>>
                  ELSE MapTo(Len(m),
                             LAMBDA k : Head(rows) @@ ("exchange_rate" :> m[k].exchange_rate)))
         \o MergeLeft(Tail(rows), rates)

PositionNumericColumns == {"cost", "yield", "value", "balance", "exchange_rate"}

\* a row of the merged positions after .fillna(1.0)
Filled(row) ==
    [c \in {k \in PositionNumericColumns : IsNaN(row[k])} |-> Num(1)] @@ row

\* value_RUB = value * exchange_rate
InRUB(row) == Mul(row.value, row.exchange_rate)

ValueColumnNoOverwrite(t, rate) ==
    SetColumn(t, "value_" \o rate.currency,
              LAMBDA row : Div(row.value_RUB, rate.exchange_rate))

\* one pass of the loop of lines 154-158 for the snapshot row rate: divide
\* every row, then overwrite the rows whose currency is RUB
ValueColumn(t, rate) ==
    SetColumn(SetColumn(t, "value_" \o rate.currency,
                        LAMBDA row : Div(row.value_RUB, rate.exchange_rate)),
              "value_" \o rate.currency,
              LAMBDA row : IF row.currency = "RUB"
                           THEN row.value_RUB
                           ELSE row["value_" \o rate.currency])

RECURSIVE ValueColumns(_, _)
ValueColumns(t, rates) ==
    IF Len(rates) = 0 THEN t
    ELSE ValueColumns(ValueColumn(t, Head(rates)), Tail(rates))

\* pd.merge(...) of lines 139-147, before .fillna
Merged(portfolio, exchange_rates) ==
    Table(Append(portfolio.columns, "exchange_rate"),
          MergeLeft(portfolio.rows, DropColumn(exchange_rates, "account").rows))

ConvertPositionsNoFill(portfolio, exchange_rates) ==
    DropColumn(
        ValueColumns(
            SetColumn(Merged(portfolio, exchange_rates), "value_RUB", InRUB),
            exchange_rates.rows),
        "exchange_rate")

\* lines 139-160, the account column being present in exchange_rates
ConvertPositions(portfolio, exchange_rates) ==
    DropColumn(
        ValueColumns(
            SetColumn(SetColumn(Merged(portfolio, exchange_rates), "exchange_rate",
                                LAMBDA row : Filled(row).exchange_rate),
                      "value_RUB", InRUB),
            exchange_rates.rows),
        "exchange_rate")

Min(S) == CHOOSE x \in S : \A y \in S : x <= y

NoQuery == [asked |-> FALSE, date |-> 0, currency |-> ""]

Query(date, c) == [asked |-> TRUE, date |-> date, currency |-> c]

BaseRateQueryFirstDate(row) ==
    IF row.currency # "RUB" THEN Query(D1, row.currency) ELSE NoQuery

\* line 164: ExchangeRates(x[0])[x[1]].rate if x[1] != 'RUB' else 1
BaseRateQuery(row) ==
    IF row.currency # "RUB" THEN Query(row.date, row.currency) ELSE NoQuery

TargetRateQueryOwnCurrency(row, currency) ==
    IF row.currency # currency THEN Query(row.date, currency) ELSE NoQuery

\* lines 177-178: ExchangeRates(x[0])[currency].rate if x[1] != 'RUB' else 1
TargetRateQuery(row, currency) ==
    IF row.currency # "RUB" THEN Query(row.date, currency) ELSE NoQuery

\* what the lambda evaluates to; reading .rate of a rate that is not there
\* raises AttributeError
Resolved(q) == IF q.asked THEN Hist(q.date, q.currency) ELSE Num(1)

Unavailable(q) == q.asked /\ IsNaN(Hist(q.date, q.currency))

\* DataFrame.apply(lambda, axis=1): the rows in order, up to the first one
\* whose lambda raises; queries are the lookups made on the way
ApplyRates(rows, pass, Q(_)) ==
    With({i \in 1..Len(rows) : Unavailable(Q(rows[i]))},
         LAMBDA failing :
             [ok |-> failing = {},
              queries |->
                  {[pass |-> pass, row |-> i, date |-> Q(rows[i]).date,
                    currency |-> Q(rows[i]).currency] :
                       i \in {j \in 1..(IF failing = {} THEN Len(rows) ELSE Min(failing)) :
                                 Q(rows[j]).asked}}])

\* lines 176-186 for one snapshot currency, every lookup succeeding
PaymentColumn(t, currency) ==
    SetColumn(
        SetColumn(
            SetColumn(t, "exchange_rate",
                      LAMBDA row : Resolved(TargetRateQuery(row, currency))),
            "payment_" \o currency,
            LAMBDA row : Div(row.payment_RUB, row.exchange_rate)),
        "commission_" \o currency,
        LAMBDA row : Div(row.commission_RUB, row.exchange_rate))

\* the loop of line 175 over the snapshot currencies still to do
RECURSIVE PaymentColumns(_, _, _)
PaymentColumns(t, currencies, queries) ==
    IF Len(currencies) = 0 THEN [ok |-> TRUE, table |-> t, queries |-> queries]
    ELSE With(t, LAMBDA tv :
             With(ApplyRates(tv.rows, Head(currencies),
                             LAMBDA row : TargetRateQuery(row, Head(currencies))),
                  LAMBDA applied :
                      IF applied.ok
                      THEN PaymentColumns(PaymentColumn(tv, Head(currencies)),
                                          Tail(currencies),
                                          queries \cup applied.queries)
                      ELSE [ok |-> FALSE, table |-> tv,
                            queries |-> queries \cup applied.queries]))

\* lines 163-171, every lookup succeeding
BaseColumns(operations) ==
    SetColumn(
        SetColumn(
            SetColumn(operations, "exchange_rate",
                      LAMBDA row : Resolved(BaseRateQuery(row))),
            "payment_RUB",
            LAMBDA row : Mul(row.payment, row.exchange_rate)),
        "commission_RUB",
        LAMBDA row : Mul(row.commission, row.exchange_rate))

\* lines 163-188
ConvertOperations(operations, exchange_rates) ==
    With(ApplyRates(operations.rows, "RUB", BaseRateQuery),
         LAMBDA applied :
             IF ~applied.ok
             THEN [ok |-> FALSE, table |-> operations, queries |-> applied.queries]
             ELSE With(PaymentColumns(BaseColumns(operations),
                                      MapTo(Len(exchange_rates.rows),
                                            LAMBDA i : exchange_rates.rows[i].currency),
                                      applied.queries),
                       LAMBDA looped :
                           IF ~looped.ok
                           THEN [ok |-> FALSE, table |-> operations,
                                 queries |-> looped.queries]
                           ELSE [ok |-> TRUE,
                                 table |-> DropColumn(looped.table, "exchange_rate"),
                                 queries |-> looped.queries]))

\* _currency_comparability(data): the three tables, or the exception
CurrencyComparability(data) ==
    IF ~HasColumn(data.exchange_rates, "account")
    THEN [ok |-> FALSE, err |-> Error("KeyError"), tables |-> <<>>, queries |-> {}]
    ELSE With(ConvertOperations(data.operations, data.exchange_rates),
              LAMBDA ops :
                  IF ops.ok
                  THEN [ok |-> TRUE, err |-> NoError,
                        tables |-> <<ConvertPositions(data.portfolio, data.exchange_rates),
                                     ops.table, data.exchange_rates>>,
                        queries |-> ops.queries]
                  ELSE [ok |-> FALSE, err |-> Error("AttributeError"), tables |-> <<>>,
                        queries |-> ops.queries])

\* _prepare_data(portfolio, operations, exchange_rates, account_name)
PrepareData(a) == With(ToDataFrame(a), LAMBDA data : CurrencyComparability(data))

----------------------------------------------------------------------------
(* Multi-Account Aggregator: concat_accounts *)

RECURSIVE AppendNew(_, _)
AppendNew(columns, more) ==
    IF Len(more) = 0 THEN columns
    ELSE AppendNew(IF Head(more) \in Range(columns) THEN columns
                   ELSE Append(columns, Head(more)),
                   Tail(more))

\* the columns of the tables, each at its first appearance
RECURSIVE UnionColumns(_)
UnionColumns(tables) ==
    IF Len(tables) = 0 THEN <<>>
    ELSE AppendNew(Head(tables).columns, UnionColumns(Tail(tables)))

\* a row widened to the combined columns; a column the row's account lacks
\* is missing (NaN)
Widen(row, columns) ==
    row @@ [c \in Range(columns) \ DOMAIN row |-> NaN]

WidenAll(tables) ==
    With(UnionColumns(tables), LAMBDA columns :
        MapTo(Len(tables),
              LAMBDA k : MapTo(Len(tables[k].rows),
                               LAMBDA i : Widen(tables[k].rows[i], columns))))

RECURSIVE DropRepeated(_)
DropRepeated(rows) ==
    IF Len(rows) = 0 THEN <<>>
    ELSE <<Head(rows)>> \o SelectSeq(DropRepeated(Tail(rows)), LAMBDA r : r # Head(rows))

ConcatDeduplicating(tables) ==
    Table(UnionColumns(tables), DropRepeated(Flatten(WidenAll(tables))))

\* pd.concat(tables, ignore_index=True)
Concat(tables) ==
    Table(UnionColumns(tables), Flatten(WidenAll(tables)))

\* lines 33-38: column col of every prepared triple, concatenated
ConcatFamilies(prepared) ==
    MapTo(3, LAMBDA col : Concat(MapTo(Len(prepared), LAMBDA k : prepared[k][col])))

----------------------------------------------------------------------------
(* The inputs of the pipeline *)

Account(tag, portfolio, operations, exchange_rates) ==
    [tag |-> tag, portfolio |-> portfolio, operations |-> operations,
     exchange_rates |-> exchange_rates]

\* one account, every combination of rows and snapshot
RichInputs ==
    {Account(Tag("A"), p, o, s) :
        p \in SeqsUpTo(RawPositions, MaxRows),
        o \in SeqsUpTo(RawOperations, MaxRows),
        s \in Snapshots}

\* the accounts of a mapping of several: repeated rows, rows out of key
\* order, an empty table, different snapshots, an unpublished rate
PlainInputs ==
    {Account(NoTag, <<P1, P1>>, <<O1, O1>>, <<"USD">>),
     Account(NoTag, <<P2, P1>>, <<O2, O1>>, <<"EUR", "USD">>),
     Account(NoTag, <<P3>>, <<>>, <<>>),
     Account(NoTag, <<>>, <<O5>>, <<"USD">>)}

\* the keys of the mapping; "" is a key like any other
AccountNames == {"A", "B", ""}

Mappings ==
    {m \in SeqsUpTo({[a EXCEPT !.tag = Tag(n)] : a \in PlainInputs, n \in AccountNames},
                    MaxAccounts) :
        NoDuplicates([k \in 1..Len(m) |-> m[k].tag])}

----------------------------------------------------------------------------
(* datapreparer.py as a state machine *)

Tagged(a, queries) ==
    {[account |-> a.tag.name, pass |-> q.pass, row |-> q.row, date |-> q.date,
      currency |-> q.currency] : q \in queries}

InitPipeline ==
    /\ \/ /\ call = "concat_accounts"
          /\ accounts \in Mappings \cup {<<a>> : a \in RichInputs}
       \/ /\ call = "_prepare_data"
          /\ accounts \in {<<[a EXCEPT !.tag = t]>> :
                              a \in PlainInputs, t \in {NoTag, Tag("A"), Tag("")}}
    /\ idx = 0
    /\ toconcat = <<>>
    /\ result = <<>>
    /\ pc = "running"
    /\ err = NoError
    /\ lookups = {}

\* one pass of the loop of lines 29-30
PrepareAccount ==
    /\ call = "concat_accounts"
    /\ pc = "running"
    /\ idx < Len(accounts)
    /\ \E r \in {PrepareData(accounts[idx + 1])} :
          /\ lookups' = lookups \cup Tagged(accounts[idx + 1], r.queries)
          /\ IF r.ok
             THEN /\ toconcat' = Append(toconcat, r.tables)
                  /\ idx' = idx + 1
                  /\ UNCHANGED <<pc, err>>
             ELSE /\ pc' = "raised"
                  /\ err' = r.err
                  /\ UNCHANGED <<toconcat, idx>>
    /\ UNCHANGED <<call, accounts, result, enumVars, appVars>>

\* lines 33-38, after the loop
ConcatTables ==
    /\ call = "concat_accounts"
    /\ pc = "running"
    /\ idx = Len(accounts)
    /\ IF Len(toconcat) = 0
       THEN /\ pc' = "raised"
            /\ err' = Error("IndexError")
            /\ UNCHANGED result
       ELSE /\ pc' = "returned"
            /\ result' = ConcatFamilies(toconcat)
            /\ UNCHANGED err
    /\ UNCHANGED <<call, accounts, idx, toconcat, lookups, enumVars, appVars>>

\* _prepare_data called on its own
PrepareSingle ==
    /\ call = "_prepare_data"
    /\ pc = "running"
    /\ \E r \in {PrepareData(accounts[1])} :
          /\ lookups' = lookups \cup Tagged(accounts[1], r.queries)
          /\ IF r.ok
             THEN /\ pc' = "returned"
                  /\ result' = r.tables
                  /\ UNCHANGED err
             ELSE /\ pc' = "raised"
                  /\ err' = r.err
                  /\ UNCHANGED result
    /\ UNCHANGED <<call, accounts, idx, toconcat, enumVars, appVars>>

NextPrep ==
    \/ PrepareAccount
    \/ ConcatTables
    \/ PrepareSingle

----------------------------------------------------------------------------
(* The enumerated-field reduction as a state machine *)

Alphabet == {".", "a", "b"}

RECURSIVE Names(_)
Names(n) ==
    IF n = 0 THEN {""}
    ELSE LET shorter == Names(n - 1)
         IN  shorter \cup {s \o c : s \in shorter, c \in Alphabet}

InitField ==
    /\ enumField \in Fields
    /\ enumRaw \in Names(MaxNameLen)
    /\ enumOut = [none |-> FALSE, name |-> ""]
    /\ enumPc = "raw"

\* the reduction of one field of one raw record (lines 74-77, 99-105)
NormalizeField ==
    /\ enumPc = "raw"
    /\ enumOut' = NormalizeEnum(enumField, enumRaw)
    /\ enumPc' = "done"
    /\ UNCHANGED <<enumField, enumRaw, prepVars, appVars>>

NextEnum == NormalizeField

----------------------------------------------------------------------------
(* tinkoffapi.py: the settings of a TinkoffAPI object *)

\* None, in a field that otherwise holds an account id or a date
None == 0

NoSettings == [id |-> None, sd |-> None, ed |-> None]

Digit(c) ==
    CASE c = "0" -> 0 [] c = "1" -> 1 [] c = "2" -> 2 [] c = "3" -> 3
      [] c = "4" -> 4 [] c = "5" -> 5 [] c = "6" -> 6 [] c = "7" -> 7
      [] c = "8" -> 8 [] c = "9" -> 9 [] OTHER -> -1

Char(s, i) == SubSeq(s, i, i)

Two(s, i) == 10 * Digit(Char(s, i)) + Digit(Char(s, i + 1))

\* datetime.strptime(s, "%d.%m.%Y") on the zero-padded form; a date is the
\* number yyyymmdd.  ok is FALSE where strptime raises ValueError.
ParseDate(s) ==
    LET wellFormed ==
            /\ Len(s) = 10
            /\ Char(s, 3) = "." /\ Char(s, 6) = "."
            /\ \A i \in {1, 2, 4, 5, 7, 8, 9, 10} : Digit(Char(s, i)) >= 0
        day == Two(s, 1)
        month == Two(s, 4)
        year == 100 * Two(s, 7) + Two(s, 9)
        daysIn == IF month = 2 THEN (IF year % 4 = 0 /\ (year % 100 # 0 \/ year % 400 = 0)
                                     THEN 29 ELSE 28)
                  ELSE IF month \in {4, 6, 9, 11} THEN 30 ELSE 31
    IN  IF wellFormed /\ month \in 1..12 /\ day \in 1..daysIn /\ year >= 1
        THEN [ok |-> TRUE, value |-> 10000 * year + 100 * month + day]
        ELSE [ok |-> FALSE, value |-> None]

\* the day the run starts, as yyyymmdd
Today == 20210301

\* switch_account(new_broker_account_id, new_starting_date), no ending date
SwitchAccount(s, id, date, now) ==
    LET parsed == ParseDate(date)
    IN  IF parsed.ok
        THEN [settings |-> [id |-> id, sd |-> parsed.value, ed |-> now], outcome |-> "ok"]
        ELSE [settings |-> [s EXCEPT !.id = id], outcome |-> "ValueError"]

\* the loop of lines 78-80 from its k-th pass; the requests of pass failAt
\* get a response that is not HTTP 200 (parse_response raises)
RECURSIVE RunAccounts(_, _, _, _, _, _)
RunAccounts(s, ids, dates, k, failAt, now) ==
    IF k > Len(ids) THEN [settings |-> s, outcome |-> "ok"]
    ELSE LET switched == SwitchAccount(s, ids[k], dates[k], now)
         IN  IF switched.outcome # "ok" THEN switched
             ELSE IF failAt = k
             THEN [settings |-> switched.settings, outcome |-> "ResponseError"]
             ELSE RunAccounts(switched.settings, ids, dates, k + 1, failAt, now)

\* get_each_account_data(names, ids, starting_dates)
GetEachAccountData(s, names, ids, dates, failAt, now) ==
    IF Len(names) = Len(ids) /\ Len(ids) = Len(dates)
    THEN LET ran == RunAccounts(s, ids, dates, 1, failAt, now)
         IN  IF ran.outcome = "ok" THEN [settings |-> s, outcome |-> "ok"] ELSE ran
    ELSE [settings |-> s, outcome |-> "UnequalLengthsError"]

----------------------------------------------------------------------------
(* InvestBoard.py: the application object, with its TinkoffAPI client *)

NoUserData == [none |-> TRUE, keys |-> {}, names |-> <<>>, ids |-> <<>>, dates |-> <<>>]

\* a parsed user_data.json: its top-level keys, the items of "Portfolios"
\* (name -> id) and the values of "StartingDates"
Document(keys, count, dates) ==
    [none |-> FALSE, keys |-> keys,
     names |-> MapTo(count, LAMBDA k : SubSeq("ABCDEFGH", k, k)),
     ids |-> MapTo(count, LAMBDA k : k),
     dates |-> dates]

\* 30.02.2020 is no date
DateStrings == {"01.02.2020", "30.02.2020"}

Documents ==
    {Document({}, 0, <<>>)}
    \cup {Document(keys, count, dates) :
            keys \in {{"Portfolios", "StartingDates"},
                      {"Token", "Portfolios", "StartingDates"}},
            count \in 0..MaxAccounts,
            dates \in SeqsUpTo(DateStrings, MaxAccounts)}
    \cup {Document({"Token"}, 0, <<>>)}

\* Python truthiness of user_data: None and {} are false
HasUserData(ud) == ~ud.none /\ ud.keys # {}

Now == Today + clock

Called(method) ==
    [method |-> method, hadPath |-> data_path # "", hadUserData |-> ~user_data.none,
     hadApi |-> api]

NotAnApiCall == [called |-> FALSE, settings |-> NoSettings]

InitBoard ==
    /\ data_path \in {"", "data/user_data.json"}
    /\ user_data = NoUserData
    /\ api = FALSE
    /\ settings = NoSettings
    /\ before = NotAnApiCall
    /\ lastCall = [method |-> "__init__", hadPath |-> FALSE, hadUserData |-> FALSE,
                   hadApi |-> FALSE]
    /\ outcome = "ok"
    /\ clock = 0

\* InvestBoard.read_user_data; the file may be absent, and holds any document
ReadUserData ==
    /\ lastCall' = Called("read_user_data")
    /\ before' = NotAnApiCall
    /\ IF data_path # ""
       THEN \/ /\ outcome' = "FileNotFoundError"
               /\ UNCHANGED user_data
            \/ \E doc \in Documents :
                  /\ user_data' = doc
                  /\ outcome' = "ok"
       ELSE /\ outcome' = "NoDataPathError"
            /\ UNCHANGED user_data
    /\ UNCHANGED <<data_path, api, settings, clock, prepVars, enumVars>>

\* InvestBoard.init_api
InitApi ==
    /\ lastCall' = Called("init_api")
    /\ before' = NotAnApiCall
    /\ IF HasUserData(user_data)
       THEN IF "Token" \in user_data.keys
            THEN /\ api' = TRUE
                 /\ settings' = NoSettings
                 /\ outcome' = "ok"
            ELSE /\ outcome' = "KeyError"
                 /\ UNCHANGED <<api, settings>>
       ELSE /\ outcome' = "NoUserDataError"
            /\ UNCHANGED <<api, settings>>
    /\ UNCHANGED <<data_path, user_data, clock, prepVars, enumVars>>

\* InvestBoard.read_accounts_data, the call of get_each_account_data included
ReadAccountsData ==
    /\ lastCall' = Called("read_accounts_data")
    /\ IF HasUserData(user_data)
       THEN IF {"Portfolios", "StartingDates"} \subseteq user_data.keys
            THEN IF api
                 THEN \E failAt \in 0..Len(user_data.ids) :
                         LET r == GetEachAccountData(settings, user_data.names,
                                                     user_data.ids, user_data.dates,
                                                     failAt, Now)
                         IN  /\ before' = [called |-> TRUE, settings |-> settings]
                             /\ settings' = r.settings
                             /\ outcome' = r.outcome
                 ELSE /\ outcome' = "AttributeError"
                      /\ before' = NotAnApiCall
                      /\ UNCHANGED settings
            ELSE /\ outcome' = "KeyError"
                 /\ before' = NotAnApiCall
                 /\ UNCHANGED settings
       ELSE /\ outcome' = "NoUserDataError"
            /\ before' = NotAnApiCall
            /\ UNCHANGED settings
    /\ UNCHANGED <<data_path, user_data, api, clock, prepVars, enumVars>>

\* TinkoffAPI.switch_account called on the client directly
ApiSwitchAccount ==
    /\ api
    /\ \E id \in 1..MaxAccounts, date \in DateStrings :
          LET r == SwitchAccount(settings, id, date, Now)
          IN  /\ settings' = r.settings
              /\ outcome' = r.outcome
    /\ lastCall' = Called("switch_account")
    /\ before' = NotAnApiCall
    /\ UNCHANGED <<data_path, user_data, api, clock, prepVars, enumVars>>

\* a day passes: datetime.now() moves on
Tick ==
    /\ clock < MaxClock
    /\ clock' = clock + 1
    /\ UNCHANGED <<data_path, user_data, api, settings, before, lastCall, outcome,
                   prepVars, enumVars>>

NextApp ==
    \/ ReadUserData
    \/ InitApi
    \/ ReadAccountsData
    \/ ApiSwitchAccount
    \/ Tick

----------------------------------------------------------------------------
(* Specifications: one per component, the other components at rest *)

PrepAtRest ==
    /\ call = ""
    /\ accounts = <<>>
    /\ idx = 0
    /\ toconcat = <<>>
    /\ result = <<>>
    /\ pc = "returned"
    /\ err = NoError
    /\ lookups = {}

EnumAtRest ==
    /\ enumField = ""
    /\ enumRaw = ""
    /\ enumOut = [none |-> FALSE, name |-> ""]
    /\ enumPc = "done"

AppAtRest ==
    /\ data_path = ""
    /\ user_data = NoUserData
    /\ api = FALSE
    /\ settings = NoSettings
    /\ before = NotAnApiCall
    /\ lastCall = [method |-> "__init__", hadPath |-> FALSE, hadUserData |-> FALSE,
                   hadApi |-> FALSE]
    /\ outcome = "ok"
    /\ clock = 0

\* datapreparer.py
Init == InitPipeline /\ EnumAtRest /\ AppAtRest

Next == NextPrep

Spec == Init /\ [][Next]_vars

\* the enumerated-field reduction on arbitrary names
InitEnum == PrepAtRest /\ InitField /\ AppAtRest

SpecEnum == InitEnum /\ [][NextEnum]_vars

\* InvestBoard.py and tinkoffapi.py
InitApp == PrepAtRest /\ EnumAtRest /\ InitBoard

SpecApp == InitApp /\ [][NextApp]_vars

----------------------------------------------------------------------------
(* Properties of datapreparer.py (specification Spec) *)

\* the triples prepared so far, the k-th from accounts[k]
Prepared ==
    IF call = "_prepare_data" /\ pc = "returned" THEN <<result>> ELSE toconcat

Restrict(row, columns) == [c \in Range(columns) |-> row[c]]

RECURSIVE TotalRows(_, _)
TotalRows(prepared, col) ==
    IF Len(prepared) = 0 THEN 0
    ELSE Len(Head(prepared)[col].rows) + TotalRows(Tail(prepared), col)

\* the place in the mapping of the account a combined row is tagged with
PlaceOf(row) == CHOOSE k \in 1..Len(accounts) : accounts[k].tag.name = row.account

\* C1: when concat_accounts returns, each of the three combined tables holds
\* the rows of the per-account prepared tables, accounts in the mapping's
\* order and rows in their per-account order, nothing dropped and nothing
\* reordered: the row count is the sum of the per-account counts, and the
\* rows tagged A are account A's rows, in order (a column that account lacks
\* being missing in them).
C1_ConcatPreserves ==
    (call = "concat_accounts" /\ pc = "returned") =>
        /\ Len(toconcat) = Len(accounts)
        /\ \A col \in 1..3 :
              /\ Len(result[col].rows) = TotalRows(toconcat, col)
              /\ \A i, j \in 1..Len(result[col].rows) :
                    i < j => PlaceOf(result[col].rows[i]) <= PlaceOf(result[col].rows[j])
              /\ \A k \in 1..Len(accounts) :
                    /\ Range(toconcat[k][col].columns) \subseteq Range(result[col].columns)
                    /\ LET mine == SelectSeq(result[col].rows,
                                             LAMBDA r : r.account = accounts[k].tag.name)
                       IN  /\ Len(mine) = Len(toconcat[k][col].rows)
                           /\ \A i \in 1..Len(mine) :
                                 /\ Restrict(mine[i], toconcat[k][col].columns)
                                       = toconcat[k][col].rows[i]
                                 /\ \A c \in DOMAIN mine[i] :
                                       c \notin Range(toconcat[k][col].columns)
                                          => mine[i][c] = NaN

\* two accounts were combined, one of them holding the same row twice
C1_Witness ==
    /\ call = "concat_accounts"
    /\ pc = "returned"
    /\ Len(accounts) >= 2
    /\ \E i, j \in 1..Len(result[1].rows) : i < j /\ result[1].rows[i] = result[1].rows[j]
    /\ Range(toconcat[1][1].columns) # Range(toconcat[2][1].columns)

\* C2: in every prepared position table, for every row and every currency X
\* of the account's snapshot, value_X is value_RUB / rate(X) when the row's
\* currency is not RUB, and value_RUB itself when it is RUB.
C2_PositionValues ==
    \A k \in 1..Len(Prepared) :
        \A i \in 1..Len(Prepared[k][1].rows) :
            \A x \in 1..Len(accounts[k].exchange_rates) :
                LET row == Prepared[k][1].rows[i]
                    X == accounts[k].exchange_rates[x]
                IN  row["value_" \o X] =
                        IF row.currency # "RUB"
                        THEN Div(row.value_RUB, Quote(X))
                        ELSE row.value_RUB

\* a prepared account holds a RUB position and a foreign one, and its
\* snapshot has both currencies
C2_Witness ==
    \E k \in 1..Len(Prepared) :
        /\ Len(accounts[k].exchange_rates) = 2
        /\ \E i, j \in 1..Len(Prepared[k][1].rows) :
              /\ Prepared[k][1].rows[i].currency = "RUB"
              /\ Prepared[k][1].rows[j].currency # "RUB"
              /\ Prepared[k][1].rows[j].value_USD # Prepared[k][1].rows[j].value_RUB

\* C3: every raw position has its row in the prepared position table, in
\* place, whatever the snapshot; and the row of a RUB position has
\* value_RUB equal to its value (cost * balance + yield).
C3_BaseIdentity ==
    \A k \in 1..Len(Prepared) :
        /\ Len(Prepared[k][1].rows) = Len(accounts[k].portfolio)
        /\ \A i \in 1..Len(accounts[k].portfolio) :
              LET p == accounts[k].portfolio[i]
                  row == Prepared[k][1].rows[i]
              IN  /\ row.figi = p.figi
                  /\ row.value = Add(Mul(p.cost, p.balance), p.yield)
                  /\ p.currency = "RUB" => row.value_RUB = row.value

\* a RUB position was converted under a snapshot that has entries, and
\* under one that has none
C3_Witness ==
    \E k \in 1..Len(Prepared) :
        /\ \E i \in 1..Len(Prepared[k][1].rows) :
              /\ Prepared[k][1].rows[i].currency = "RUB"
              /\ Prepared[k][1].rows[i].value_RUB = Num(100)
        /\ Len(accounts[k].exchange_rates) >= 1

\* the lookups made for row i of account a in the pass to currency pass
LookupsFor(a, pass, i) ==
    {q \in lookups : q.account = a.tag.name /\ q.pass = pass /\ q.row = i}

\* C4: for every operation row of a prepared account, the resolved rate is 1
\* and no lookup is made for the row when its currency is RUB; otherwise it
\* is the historical rate for the row's own date and currency, the only
\* lookup made for it.  payment_RUB = payment * rate and commission_RUB =
\* commission * rate, a missing commission staying missing.
C4_BaseConversion ==
    \A k \in 1..Len(Prepared) :
        /\ Len(Prepared[k][2].rows) = Len(accounts[k].operations)
        /\ \A i \in 1..Len(accounts[k].operations) :
              LET o == accounts[k].operations[i]
                  row == Prepared[k][2].rows[i]
                  rate == IF o.currency = "RUB" THEN Num(1) ELSE Hist(o.date, o.currency)
              IN  /\ row.payment_RUB = Mul(o.payment, rate)
                  /\ row.commission_RUB =
                        IF IsNaN(o.commission) THEN NaN ELSE Mul(o.commission, rate)
                  /\ LookupsFor(accounts[k], "RUB", i) =
                        IF o.currency = "RUB" THEN {}
                        ELSE {[account |-> accounts[k].tag.name, pass |-> "RUB", row |-> i,
                               date |-> o.date, currency |-> o.currency]}

\* a prepared account has a RUB operation, a USD operation of the later
\* date and an operation without commission
C4_Witness ==
    \E k \in 1..Len(Prepared) :
        \E i, j \in 1..Len(Prepared[k][2].rows) :
            /\ Prepared[k][2].rows[i].currency = "RUB"
            /\ Prepared[k][2].rows[j].currency = "USD"
            /\ Prepared[k][2].rows[j].date = D2
            /\ Prepared[k][2].rows[j].payment_RUB = Num(920)

C6_RateUnavailable ==
    \A q \in lookups :
        IsNaN(Hist(q.date, q.currency)) =>
            /\ pc = "raised"
            /\ err = [kind |-> "RateUnavailableError", date |-> q.date,
                      currency |-> q.currency]
            /\ result = <<>>

\* C8: _prepare_data without an account tag completes and returns tables
\* with no account column; with a tag, every returned row carries it.
C8_SingleAccountMode ==
    call = "_prepare_data" =>
        IF ~accounts[1].tag.given
        THEN /\ pc # "raised"
             /\ pc = "returned" => \A col \in 1..3 : ~HasColumn(result[col], "account")
        ELSE pc = "returned" =>
                \A col \in 1..3 :
                    \A i \in 1..Len(result[col].rows) :
                        result[col].rows[i].account = accounts[1].tag.name

----------------------------------------------------------------------------
(* Properties of the enumerated-field reduction (specification SpecEnum) *)

Dots(s) == {i \in 1..Len(s) : SubSeq(s, i, i) = "."}

----------------------------------------------------------------------------
(* Properties of InvestBoard.py and tinkoffapi.py (specification SpecApp) *)

\* C9: when a call of get_each_account_data has ended, however it ended,
\* _broker_account_id, _starting_date and _ending_date are what they were
\* when it began.
C9_SettingsRestored == before.called => settings = before.settings

\* C10: a call made before its prerequisite is met ends with
\* NoDataPathError (read_user_data without a data path) or NoUserDataError
\* (init_api or read_accounts_data without user data; read_accounts_data on
\* user data that names its portfolios and starting dates, but without an
\* API client), never with another failure.
C10_PrerequisiteErrors ==
    /\ (lastCall.method = "read_user_data" /\ ~lastCall.hadPath)
          => outcome = "NoDataPathError"
    /\ (lastCall.method = "init_api" /\ ~lastCall.hadUserData)
          => outcome = "NoUserDataError"
    /\ (lastCall.method = "read_accounts_data" /\ ~lastCall.hadUserData)
          => outcome = "NoUserDataError"
    /\ (/\ lastCall.method = "read_accounts_data"
        /\ ~lastCall.hadApi
        /\ {"Portfolios", "StartingDates"} \subseteq user_data.keys)
          => outcome = "NoUserDataError"

====
